---- MODULE Spec2Model ----
(***************************************************************************)
(* Shona noun-class analyser (app.py, fortune_grammar.py).                 *)
(*                                                                         *)
(* Python strings that the code slices, concatenates or lower-cases are    *)
(* sequences of one-character strings; labels that are only compared       *)
(* (class ids, number, meaning) are TLA+ strings.  An optional value       *)
(* (a missing dict key or None, which dict.get does not tell apart) is a   *)
(* sequence of length 0 or 1.                                              *)
(***************************************************************************)
EXTENDS Integers, Sequences, FiniteSets, TLC

VARIABLES
    SHONA_CLASS_MAP,   \* app.py module global, the rule table
    analysis_history,  \* st.session_state.analysis_history, newest first
    word_input,        \* text of the input box at the last run
    pred,              \* model.predict(...)[0], as "score > 0.5" per position
    full_split,        \* handler locals of the last run
    prefix,
    stem,
    analysis_data,
    best_candidate,
    lemma,
    plural_form,
    sel,               \* outcome of the last select_best_class call
    fortune,           \* outcome of the last fortune_grammar call
    screen,            \* what the last run rendered
    added              \* history variable: every entry handed to add_to_history
                       \* since the history was last empty, newest first

vars == <<SHONA_CLASS_MAP, analysis_history, word_input, pred, full_split,
          prefix, stem, analysis_data, best_candidate, lemma, plural_form,
          sel, fortune, screen, added>>

None == <<>>
Some(x) == <<x>>

(***************************************************************************)
(* str.lower, on the ASCII letters the inputs use.                         *)
(***************************************************************************)
lower_char(c) ==
    CASE c = "A" -> "a" [] c = "B" -> "b" [] c = "C" -> "c" [] c = "D" -> "d"
      [] c = "E" -> "e" [] c = "F" -> "f" [] c = "G" -> "g" [] c = "H" -> "h"
      [] c = "I" -> "i" [] c = "J" -> "j" [] c = "K" -> "k" [] c = "L" -> "l"
      [] c = "M" -> "m" [] c = "N" -> "n" [] c = "O" -> "o" [] c = "P" -> "p"
      [] c = "Q" -> "q" [] c = "R" -> "r" [] c = "S" -> "s" [] c = "T" -> "t"
      [] c = "U" -> "u" [] c = "V" -> "v" [] c = "W" -> "w" [] c = "X" -> "x"
      [] c = "Y" -> "y" [] c = "Z" -> "z" [] OTHER -> c

lower_identity(s) == s

lower(s) == [i \in 1..Len(s) |-> lower_char(s[i])]

(***************************************************************************)
(* The rule tables.                                                        *)
(***************************************************************************)
Entry(c, m, n, pl, lp, pr) ==
    [class |-> c, meaning |-> m, number |-> n, plural |-> pl,
     lemma_prefix |-> lp, priority |-> pr]

SHONA_CLASS_MAP_duplicate ==
    (<<"m", "u">> :> << Entry("1", "Person/agent/people who undergo action indicated by agent", "Singular", Some(<<"v", "a">>), None, Some(1)),
                 Entry("1", "Tree/Atmospheric/body parts/manner of action", "Singular", Some(<<"m", "i">>), None, Some(2)) >>)

SHONA_CLASS_MAP_app ==
    (<<"m", "u">> :> << Entry("1", "Person/agent/people who undergo action indicated by agent", "Singular", Some(<<"v", "a">>), None, Some(1)),
                 Entry("3", "Tree/Atmospheric/body parts/manner of action", "Singular", Some(<<"m", "i">>), None, Some(2)),
                 Entry("18", "Locative (Inside)", "N/A", None, None, Some(3)) >>)
 @@ (<<"v", "a">> :> << Entry("2", "People", "Plural", None, Some(<<"m", "u">>), Some(1)),
                 Entry("2a", "Honorific", "N/A", None, None, Some(2)) >>)
 @@ (<<"m", "i">> :> << Entry("4", "Trees/Misc", "Plural", None, Some(<<"m", "u">>), Some(1)) >>)
 @@ (<<"c", "h", "i">> :> << Entry("7", "Object/Lang", "Singular", Some(<<"z", "v", "i">>), None, Some(1)) >>)
 @@ (<<"z", "v", "i">> :> << Entry("8", "Objects", "Plural", None, Some(<<"c", "h", "i">>), Some(1)) >>)
 @@ (<<"m", "a">> :> << Entry("6", "Liquids/Big Things", "Plural", None, Some(<<"r", "i">>), Some(1)) >>)
 @@ (<<"r", "i">> :> << Entry("5", "Large Object/Fruit", "Singular", Some(<<"m", "a">>), None, Some(1)) >>)
 @@ (<<"r", "u">> :> << Entry("11", "Long/Thin Object", "Singular", Some(<<"n">>), None, Some(1)) >>)
 @@ (<<"k", "a">> :> << Entry("12", "Diminutive (Small)", "Singular", Some(<<"t", "u">>), None, Some(1)) >>)
 @@ (<<"t", "u">> :> << Entry("13", "Diminutive Plural", "Plural", None, Some(<<"k", "a">>), Some(1)) >>)
 @@ (<<"h", "u">> :> << Entry("14", "Abstract Quality", "Abstract", None, None, Some(1)) >>)
 @@ (<<"k", "u">> :> << Entry("15", "Infinitive (To do)", "N/A", None, None, Some(1)),
                 Entry("17", "Locative (At/To)", "N/A", None, None, Some(2)) >>)
 @@ (<<"p", "a">> :> << Entry("16", "Locative (At/On)", "N/A", None, None, Some(1)) >>)
 @@ (<<"s", "v", "i">> :> << Entry("19", "Diminutive/Pejorative (Small/Bad)", "Singular", None, None, Some(1)) >>)
 @@ (<<"z", "i">> :> << Entry("21", "Augmentative/Pejorative (Large/Excessive)", "Singular", None, None, Some(1)) >>)

PERSON_STEMS == << <<"n", "h", "u">>, <<"n", "t", "u">>, <<"k", "u", "r", "u">>, <<"r", "u", "m", "e">>, <<"f", "a", "z", "i">>, <<"a", "n", "a">>, <<"k", "o", "m", "a", "n", "a">>, <<"s", "i", "k", "a", "n", "a">> >>
LOCATIVE_STEMS == << <<"m", "u", "n", "d", "a">>, <<"m", "i", "n", "d", "a">>, <<"m", "u", "s", "h", "a">>, <<"r", "o", "d", "h", "i">>, <<"g", "o", "m", "o">>, <<"d", "z", "i", "v", "a">> >>
TREE_STEMS == << <<"t", "i">>, <<"t", "o", "n", "d", "o">>, <<"p", "a", "n", "i">>, <<"n", "d", "o">>, <<"s", "a", "s", "a">>, <<"t", "s", "a", "m", "v", "u">>, <<"n", "z", "v", "i", "r", "o">> >>
BODY_PART_STEMS == << <<"s", "o", "r", "o">>, <<"r", "o", "m", "o">>, <<"m", "h", "u", "n", "o">>, <<"r", "o", "m", "o">>, <<"d", "z", "i", "r", "a">> >>

(***************************************************************************)
(* select_best_class.  The outcome is a record: ret is the returned entry  *)
(* (None when the call raised), exc the exception raised ("none" when it   *)
(* returned) and rule the return statement that was taken.                 *)
(***************************************************************************)
Returned(c, r) == [ret |-> Some(c), exc |-> "none", rule |-> r]
Raised(e) == [ret |-> None, exc |-> e, rule |-> "raise"]
NotCalled == [ret |-> None, exc |-> "none", rule |-> "not called"]

startswith_reversed(s, p) == Len(s) <= Len(p) /\ SubSeq(p, 1, Len(s)) = s

\* str.startswith
startswith(s, p) == Len(p) <= Len(s) /\ SubSeq(s, 1, Len(p)) = p

\* any(stem_lower.startswith(s) or stem_lower == s for s in patterns)
any_match(stem_lower, patterns) ==
    \E i \in 1..Len(patterns) :
        startswith(stem_lower, patterns[i]) \/ stem_lower = patterns[i]

\* the candidates whose "class" is cls, in order
with_class(candidates, cls) == SelectSeq(candidates, LAMBDA c : c.class = cls)

\* next(c for c in candidates if c["class"] == cls)
next_with_class(candidates, cls, r) ==
    IF with_class(candidates, cls) = <<>>
    THEN Raised("StopIteration")
    ELSE Returned(with_class(candidates, cls)[1], r)

\* candidates[0]
first_candidate(candidates, r) ==
    IF candidates = <<>> THEN Raised("IndexError") ELSE Returned(candidates[1], r)

\* x.get("priority", 99)
priority_key(x) == IF x.priority = None THEN 99 ELSE x.priority[1]

replaces_or_ties(x, best) == priority_key(x) <= priority_key(best)

\* min keeps the element seen first unless a later key is strictly smaller
replaces(x, best) == priority_key(x) < priority_key(best)

RECURSIVE min_from(_, _, _)
min_from(candidates, i, best) ==
    IF i > Len(candidates) THEN best
    ELSE min_from(candidates, i + 1,
                  IF replaces(candidates[i], best) THEN candidates[i] ELSE best)

\* min(candidates, key=lambda x: x.get("priority", 99))
select_min(candidates) ==
    IF candidates = <<>> THEN Raised("ValueError")
    ELSE Returned(min_from(candidates, 2, candidates[1]), "priority")

\* the body of `if prefix == "mu":`
select_mu(stem_lower, candidates) ==
    IF any_match(stem_lower, LOCATIVE_STEMS) /\ with_class(candidates, "18") # <<>>
    THEN Returned(with_class(candidates, "18")[1], "locative")
    ELSE IF any_match(stem_lower, PERSON_STEMS)
    THEN next_with_class(candidates, "1", "person")
    ELSE IF any_match(stem_lower, TREE_STEMS \o BODY_PART_STEMS)
    THEN next_with_class(candidates, "3", "tree")
    ELSE first_candidate(candidates, "default")

select_ku_by_priority(candidates) == select_min(candidates)

\* the body of `if prefix == "ku":`
select_ku(candidates) == first_candidate(candidates, "ku")

select_best_class(p, s, candidates) ==
    IF Len(candidates) = 1 THEN Returned(candidates[1], "single")
    ELSE IF p = <<"m", "u">> THEN select_mu(lower(s), candidates)
    ELSE IF p = <<"k", "u">> THEN select_ku(candidates)
    ELSE select_min(candidates)

(***************************************************************************)
(* ai_predict_split.  The tokenizer and the network are a black box: pred  *)
(* is any vector of MAX_LEN scores, kept as the truth value of             *)
(* "pred[i] > 0.5" for each position.  Positions i count from 0 as in the  *)
(* code; sequences are indexed from 1.                                     *)
(***************************************************************************)
MAX_LEN == 30

is_split_point_any(word, p, i, split_found) ==
    i < Len(p) /\ p[i + 1] /\ ~split_found

\* the condition of the `if` in the loop
is_split_point(word, p, i, split_found) ==
    i < Len(p) /\ p[i + 1] /\ i < Len(word) - 1 /\ ~split_found

RECURSIVE split_loop(_, _, _, _)
split_loop(word, p, i, acc) ==
    IF i >= Len(word) THEN acc
    ELSE LET char == word[i + 1] IN
         IF is_split_point(word, p, i, acc.split_found)
         THEN split_loop(word, p, i + 1,
                  [split_word  |-> acc.split_word \o <<char, "-">>,
                   prefix      |-> Append(acc.prefix, char),
                   stem        |-> acc.stem,
                   split_found |-> TRUE])
         ELSE split_loop(word, p, i + 1,
                  [split_word  |-> Append(acc.split_word, char),
                   prefix      |-> IF acc.split_found THEN acc.prefix
                                   ELSE Append(acc.prefix, char),
                   stem        |-> IF acc.split_found THEN Append(acc.stem, char)
                                   ELSE acc.stem,
                   split_found |-> acc.split_found])

ai_predict_split(word, p) ==
    LET r == split_loop(word, p, 0,
                 [split_word |-> <<>>, prefix |-> <<>>, stem |-> <<>>,
                  split_found |-> FALSE])
    IN IF ~r.split_found
       THEN [split_word |-> word, prefix |-> <<>>, stem |-> word]
       ELSE [split_word |-> r.split_word, prefix |-> r.prefix, stem |-> r.stem]

(***************************************************************************)
(* The Deep Analysis handler's steps.                                      *)
(***************************************************************************)
lookup_exact(table, p) == IF p \in DOMAIN table THEN table[p] ELSE <<>>

\* SHONA_CLASS_MAP.get(prefix.lower(), [])
lookup(table, p) == IF lower(p) \in DOMAIN table THEN table[lower(p)] ELSE <<>>

\* truth value of an optional string: None and "" are false
truthy(opt) == opt # None /\ opt[1] # <<>>

lemma_of_any_number(word, s, best) ==
    IF truthy(best.lemma_prefix) THEN best.lemma_prefix[1] \o s ELSE word

\* lemma = word_input; if number == "Plural" and lemma_prefix: lemma_prefix + stem
lemma_of(word, s, best) ==
    IF best.number = "Plural" /\ truthy(best.lemma_prefix)
    THEN best.lemma_prefix[1] \o s
    ELSE word

plural_form_of_regular(s, best) ==
    IF truthy(best.plural) THEN Some(best.plural[1] \o s) ELSE None

\* the "Plural Form" line, None when no such line is written
plural_form_of(s, best) ==
    IF truthy(best.plural) THEN Some(best.plural[1] \o s)
    ELSE IF best.class = "18"
    THEN IF s = <<"m", "u", "n", "d", "a">> THEN Some(<<"m", "u", "m", "i", "n", "d", "a">>) ELSE None
    ELSE None

HISTORY_LIMIT == 100

\* the entry add_to_history builds; the wall-clock timestamp is left out
history_entry(word, p, s, split, class_id, meaning) ==
    [word |-> word, prefix |-> p, stem |-> s, full_split |-> split,
     class |-> class_id, meaning |-> meaning]

add_to_history_keep_oldest(history, entry) ==
    LET inserted == <<entry>> \o history
    IN IF Len(inserted) > HISTORY_LIMIT
       THEN SubSeq(inserted, Len(inserted) - HISTORY_LIMIT + 1, Len(inserted))
       ELSE inserted

\* insert(0, entry), then keep the first 100
add_to_history(history, entry) ==
    LET inserted == <<entry>> \o history
    IN IF Len(inserted) > HISTORY_LIMIT
       THEN SubSeq(inserted, 1, HISTORY_LIMIT)
       ELSE inserted

(***************************************************************************)
(* fortune_grammar.py: the same table with other key names, a lookup that  *)
(* answers an unknown prefix with a placeholder entry, and one lemma per   *)
(* candidate.                                                              *)
(***************************************************************************)
FEntry(c, m, n, pp, sp) ==
    [class |-> c, meaning |-> m, number |-> n, plural_prefix |-> pp,
     singular_prefix |-> sp]

SHONA_CLASS_MAP_fortune ==
    (<<"m", "u">> :> << FEntry("1", "Person", "Singular", Some(<<"v", "a">>), None),
                 FEntry("3", "Tree/Atmospheric", "Singular", Some(<<"m", "i">>), None),
                 FEntry("18", "Locative (Inside)", "N/A", None, None) >>)
 @@ (<<"v", "a">> :> << FEntry("2", "People (Plural of 1)", "Plural", None, Some(<<"m", "u">>)),
                 FEntry("2a", "Honorific/Respect", "N/A", None, None) >>)
 @@ (<<"m", "i">> :> << FEntry("4", "Trees/Miscellaneous (Plural of 3)", "Plural", None, Some(<<"m", "u">>)) >>)
 @@ (<<"c", "h", "i">> :> << FEntry("7", "Object/Language/Short Person", "Singular", Some(<<"z", "v", "i">>), None) >>)
 @@ (<<"z", "v", "i">> :> << FEntry("8", "Objects (Plural of 7)", "Plural", None, Some(<<"c", "h", "i">>)) >>)
 @@ (<<"m", "a">> :> << FEntry("6", "Liquids/Plurals of Cl 5", "Plural", None, Some(<<"r", "i">>)) >>)
 @@ (<<"r", "i">> :> << FEntry("5", "Large Object/Fruit", "Singular", Some(<<"m", "a">>), None) >>)
 @@ (<<"r", "u">> :> << FEntry("11", "Long/Thin Object or Abstract", "Singular", Some(<<"n">>), None) >>)
 @@ (<<"k", "a">> :> << FEntry("12", "Diminutive (Small)", "Singular", Some(<<"t", "u">>), None) >>)
 @@ (<<"t", "u">> :> << FEntry("13", "Diminutive (Plural of 12)", "Plural", None, Some(<<"k", "a">>)) >>)
 @@ (<<"h", "u">> :> << FEntry("14", "Abstract Quality", "Abstract", None, None) >>)
 @@ (<<"k", "u">> :> << FEntry("15", "Infinitive (To do)", "N/A", None, None),
                 FEntry("17", "Locative (At/To)", "N/A", None, None) >>)
 @@ (<<"p", "a">> :> << FEntry("16", "Locative (At/On)", "N/A", None, None) >>)

analyze_morphology(p) ==
    IF lower(p) \in DOMAIN SHONA_CLASS_MAP_fortune
    THEN SHONA_CLASS_MAP_fortune[lower(p)]
    ELSE << FEntry("Unknown (1a, 5, 9)", "No visible prefix", "Singular",
                   Some(<<"U", "n", "k", "n", "o", "w", "n">>), None) >>

\* list(set(lemmas)): the lemmas as a set
get_lemma(p, s, analysis_list) ==
    { IF analysis_list[i].number = "Plural" /\ truthy(analysis_list[i].singular_prefix)
      THEN analysis_list[i].singular_prefix[1] \o s
      ELSE p \o s
      : i \in 1..Len(analysis_list) }

(***************************************************************************)
(* The application: one action per button of the page.                     *)
(***************************************************************************)
NoRun == [candidates |-> <<>>, lemmas |-> {}]

Blank ==
    /\ word_input = <<>>
    /\ pred = <<>>
    /\ full_split = <<>>
    /\ prefix = <<>>
    /\ stem = <<>>
    /\ analysis_data = <<>>
    /\ best_candidate = None
    /\ lemma = None
    /\ plural_form = None
    /\ sel = NotCalled
    /\ fortune = NoRun
    /\ screen = "start"

Init ==
    /\ SHONA_CLASS_MAP = SHONA_CLASS_MAP_app
    /\ analysis_history = <<>>
    /\ added = <<>>
    /\ Blank

\* "Deep Analysis" pressed with a non-empty word; p is what the network predicts
DeepAnalysis(w, p) ==
    /\ w # <<>>
    /\ LET seg  == ai_predict_split(w, p)
           data == lookup(SHONA_CLASS_MAP, seg.prefix)
           s    == IF data # <<>>
                   THEN select_best_class(seg.prefix, seg.stem, data)
                   ELSE NotCalled
       IN /\ word_input' = w
          /\ pred' = p
          /\ full_split' = seg.split_word
          /\ prefix' = seg.prefix
          /\ stem' = seg.stem
          /\ analysis_data' = data
          /\ sel' = s
          /\ best_candidate' = s.ret
          /\ IF data = <<>>
             THEN /\ lemma' = None
                  /\ plural_form' = None
                  /\ screen' = "unresolved"
                  /\ analysis_history' =
                         add_to_history(analysis_history,
                             history_entry(w, seg.prefix, seg.stem, seg.split_word,
                                           "unknown", "unknown"))
                  /\ added' =
                         <<history_entry(w, seg.prefix, seg.stem, seg.split_word,
                                         "unknown", "unknown")>> \o added
             ELSE IF s.exc # "none"
             THEN /\ lemma' = None
                  /\ plural_form' = None
                  /\ screen' = "exception"
                  /\ analysis_history' = analysis_history
                  /\ added' = added
             ELSE /\ lemma' = Some(lemma_of(w, seg.stem, s.ret[1]))
                  /\ plural_form' = plural_form_of(seg.stem, s.ret[1])
                  /\ screen' = "analysis"
                  /\ analysis_history' =
                         add_to_history(analysis_history,
                             history_entry(w, seg.prefix, seg.stem, seg.split_word,
                                           s.ret[1].class, s.ret[1].meaning))
                  /\ added' =
                         <<history_entry(w, seg.prefix, seg.stem, seg.split_word,
                                         s.ret[1].class, s.ret[1].meaning)>> \o added
    /\ UNCHANGED <<SHONA_CLASS_MAP, fortune>>

\* "Deep Analysis" pressed with an empty input box: st.error, nothing else
DeepAnalysisEmpty ==
    /\ word_input' = <<>>
    /\ pred' = <<>>
    /\ full_split' = <<>>
    /\ prefix' = <<>>
    /\ stem' = <<>>
    /\ analysis_data' = <<>>
    /\ best_candidate' = None
    /\ lemma' = None
    /\ plural_form' = None
    /\ sel' = NotCalled
    /\ screen' = "error"
    /\ UNCHANGED <<SHONA_CLASS_MAP, analysis_history, added, fortune>>

\* "Clear History": shown only while the history is non-empty; st.rerun()
\* redraws the page with no analysis on it
ClearHistory ==
    /\ analysis_history # <<>>
    /\ analysis_history' = <<>>
    /\ added' = <<>>
    /\ pred' = <<>>
    /\ full_split' = <<>>
    /\ prefix' = <<>>
    /\ stem' = <<>>
    /\ analysis_data' = <<>>
    /\ best_candidate' = None
    /\ lemma' = None
    /\ plural_form' = None
    /\ sel' = NotCalled
    /\ screen' = "start"
    /\ UNCHANGED <<SHONA_CLASS_MAP, word_input, fortune>>

MaxAnalyses == 1
MaxPos == 2

LongWord == [i \in 1..(MAX_LEN + 2) |-> "a"]

Words == { <<"m", "u", "n", "h", "u">>, <<"m", "u", "m", "u", "n", "d", "a">>, <<"m", "u", "M", "u", "n", "d", "a">>, <<"z", "v", "i", "b", "a", "g", "e">>, <<"Z", "V", "I", "b", "a", "g", "e">>, <<"k", "u", "e", "n", "d", "a">>,
           <<"v", "a", "n", "h", "u">>, <<"x", "y", "z", "z", "y">>, <<"m", "u">>, <<"a">>, LongWord }

HighPositions == (0..MaxPos) \cup {MAX_LEN - 1}

Preds == { [i \in 1..MAX_LEN |-> (i - 1) \in H] : H \in SUBSET HighPositions }

Next ==
    \/ \E w \in Words, p \in Preds :
           /\ Len(analysis_history) < MaxAnalyses
           /\ DeepAnalysis(w, p)
    \/ DeepAnalysisEmpty
    \/ ClearHistory

Spec == Init /\ [][Next]_vars

(***************************************************************************)
(* select_best_class as a function of its arguments: the initial states    *)
(* hold the arguments, the action applies the function.                    *)
(***************************************************************************)
MaxExt == 1
MaxPriority == 2
MaxCands == 3

SeqsUpTo(S, n) == UNION { [1..k -> S] : k \in 0..n }

PatternSet ==
    { (PERSON_STEMS \o LOCATIVE_STEMS \o TREE_STEMS \o BODY_PART_STEMS)[i] :
        i \in 1..(Len(PERSON_STEMS) + Len(LOCATIVE_STEMS) + Len(TREE_STEMS)
                  + Len(BODY_PART_STEMS)) }

\* every initial segment of a pattern, every pattern followed by up to
\* MaxExt more letters, and stems in other spellings
MuStems ==
    UNION { { SubSeq(pat, 1, k) : k \in 0..Len(pat) } : pat \in PatternSet }
    \cup { pat \o e : pat \in PatternSet, e \in SeqsUpTo({"a", "u"}, MaxExt) }
    \cup { <<"n", "h", "u", "n", "d", "u">>, <<"b", "a", "g", "e">>, <<"e", "n", "d", "a">>, <<"x", "y", "z">>, <<"M", "u", "n", "d", "a">>, <<"M", "U", "S", "H", "A">>, <<"N", "H", "U", "N", "D", "U">>,
           <<"R", "u", "m", "e">>, <<"T", "i">>, <<"S", "O", "R", "O">>, <<"m", "U", "n", "D", "a">> }

AnyStems == { <<"n", "h", "u", "n", "d", "u">>, <<"m", "u", "n", "d", "a">>, <<"t", "i">>, <<"e", "n", "d", "a">> }

Priorities == { Some(n) : n \in 1..MaxPriority } \cup { None }

\* the same entries with any declared priorities
Reprioritised(candidates) ==
    { [i \in 1..Len(candidates) |-> [candidates[i] EXCEPT !.priority = f[i]]] :
        f \in [1..Len(candidates) -> Priorities] }

\* the table's candidates for a prefix as the handler looks them up, with any
\* declared priorities; the "mu" rules get every stem of MuStems
TableInputs ==
    UNION { { <<p, s, c>> :
                s \in (IF p = <<"m", "u">> THEN MuStems ELSE AnyStems),
                c \in Reprioritised(lookup(SHONA_CLASS_MAP_app, p)) } :
            p \in DOMAIN SHONA_CLASS_MAP_app \cup { <<"M", "u">>, <<"K", "U">> } }

\* any candidate sequence, the empty one included
FreeInputs ==
    { <<p, s, c>> :
        p \in { <<"m", "u">>, <<"k", "u">>, <<"v", "a">> },
        s \in AnyStems,
        c \in SeqsUpTo({ Entry(cl, "any", "N/A", None, None, Some(n)) :
                           cl \in {"1", "3", "18"}, n \in 1..MaxPriority },
                       MaxCands) }

SelInputs == TableInputs \cup FreeInputs

InitSel ==
    /\ SHONA_CLASS_MAP = SHONA_CLASS_MAP_app
    /\ analysis_history = <<>>
    /\ added = <<>>
    /\ word_input = <<>>
    /\ pred = <<>>
    /\ full_split = <<>>
    /\ \E i \in SelInputs :
           /\ prefix = i[1]
           /\ stem = i[2]
           /\ analysis_data = i[3]
    /\ best_candidate = None
    /\ lemma = None
    /\ plural_form = None
    /\ sel = NotCalled
    /\ fortune = NoRun
    /\ screen = "start"

SelectBest ==
    /\ sel = NotCalled
    /\ sel' = select_best_class(prefix, stem, analysis_data)
    /\ best_candidate' = sel'.ret
    /\ UNCHANGED <<SHONA_CLASS_MAP, analysis_history, added, word_input, pred,
                   full_split, prefix, stem, analysis_data, lemma, plural_form,
                   fortune, screen>>

NextSel == SelectBest

SpecSel == InitSel /\ [][NextSel]_vars

(***************************************************************************)
(* The lemma and plural-form steps of the handler, and fortune_grammar's   *)
(* analyze_morphology and get_lemma, as functions of their arguments.      *)
(***************************************************************************)
\* <<word, prefix, stem>> as a segmentation hands them over
DeriveSplits ==
    { <<<<"z", "v", "i", "b", "a", "g", "e">>, <<"z", "v", "i">>, <<"b", "a", "g", "e">>>>, <<<<"Z", "v", "i", "b", "a", "g", "e">>, <<"Z", "v", "i">>, <<"b", "a", "g", "e">>>>,
      <<<<"m", "u", "m", "u", "n", "d", "a">>, <<"m", "u">>, <<"m", "u", "n", "d", "a">>>>, <<<<"m", "u", "M", "u", "n", "d", "a">>, <<"m", "u">>, <<"M", "u", "n", "d", "a">>>>,
      <<<<"m", "u", "n", "d", "a">>, <<>>, <<"m", "u", "n", "d", "a">>>>, <<<<"v", "a", "n", "h", "u">>, <<"v", "a">>, <<"n", "h", "u">>>>,
      <<<<"c", "h", "i", "b", "a", "g", "e">>, <<"c", "h", "i">>, <<"b", "a", "g", "e">>>>, <<<<"x", "y", "z", "z", "y">>, <<"x", "y">>, <<"z", "z", "y">>>> }

\* the table's entries and entries with every combination of the fields the
\* two steps read
DeriveEntries ==
    UNION { { SHONA_CLASS_MAP_app[k][i] : i \in 1..Len(SHONA_CLASS_MAP_app[k]) } :
            k \in DOMAIN SHONA_CLASS_MAP_app }
    \cup { Entry(c, "any", n, pl, lp, None) :
             c \in {"7", "8", "18"},
             n \in {"Singular", "Plural", "Abstract", "N/A"},
             pl \in {None, Some(<<>>), Some(<<"z", "v", "i">>)},
             lp \in {None, Some(<<>>), Some(<<"c", "h", "i">>)} }

InitDerive ==
    /\ SHONA_CLASS_MAP = SHONA_CLASS_MAP_app
    /\ analysis_history = <<>>
    /\ added = <<>>
    /\ pred = <<>>
    /\ full_split = <<>>
    /\ \E d \in DeriveSplits :
           /\ word_input = d[1]
           /\ prefix = d[2]
           /\ stem = d[3]
    /\ analysis_data = <<>>
    /\ \E e \in DeriveEntries : best_candidate = Some(e)
    /\ lemma = None
    /\ plural_form = None
    /\ sel = NotCalled
    /\ fortune = NoRun
    /\ screen = "start"

\* lines 311-327 of the handler on the chosen candidate
DeriveForms ==
    /\ lemma = None
    /\ lemma' = Some(lemma_of(word_input, stem, best_candidate[1]))
    /\ plural_form' = plural_form_of(stem, best_candidate[1])
    /\ UNCHANGED <<SHONA_CLASS_MAP, analysis_history, added, word_input, pred,
                   full_split, prefix, stem, analysis_data, best_candidate,
                   sel, fortune, screen>>

\* get_lemma(prefix, stem, analyze_morphology(prefix, stem))
FortuneAnalyze ==
    /\ fortune = NoRun
    /\ fortune' = [candidates |-> analyze_morphology(prefix),
                   lemmas |-> get_lemma(prefix, stem, analyze_morphology(prefix))]
    /\ UNCHANGED <<SHONA_CLASS_MAP, analysis_history, added, word_input, pred,
                   full_split, prefix, stem, analysis_data, best_candidate,
                   lemma, plural_form, sel, screen>>

NextDerive == DeriveForms \/ FortuneAnalyze

SpecDerive == InitDerive /\ [][NextDerive]_vars

(***************************************************************************)
(* Properties of select_best_class, checked under SpecSel.                 *)
(***************************************************************************)
Uppers == <<"A", "B", "C", "D", "E", "F", "G", "H", "I", "J", "K", "L", "M",
            "N", "O", "P", "Q", "R", "S", "T", "U", "V", "W", "X", "Y", "Z">>
Lowers == <<"a", "b", "c", "d", "e", "f", "g", "h", "i", "j", "k", "l", "m",
            "n", "o", "p", "q", "r", "s", "t", "u", "v", "w", "x", "y", "z">>

\* t is s with every capital letter replaced by its small letter
FoldsTo(s, t) ==
    /\ Len(s) = Len(t)
    /\ \A i \in 1..Len(s) :
           \/ \E j \in 1..Len(Uppers) : s[i] = Uppers[j] /\ t[i] = Lowers[j]
           \/ (\A j \in 1..Len(Uppers) : s[i] # Uppers[j]) /\ t[i] = s[i]

\* some pattern of the set is an initial segment of the stem, capitals aside
StartsWithPattern(s, patterns) ==
    \E i \in 1..Len(patterns) :
        /\ Len(patterns[i]) <= Len(s)
        /\ FoldsTo(SubSeq(s, 1, Len(patterns[i])), patterns[i])

\* the stem, capitals aside, is an initial segment of some pattern of the set
IsStartOfPattern(s, patterns) ==
    \E i \in 1..Len(patterns) :
        /\ Len(s) <= Len(patterns[i])
        /\ FoldsTo(s, SubSeq(patterns[i], 1, Len(s)))

ClassesOf(candidates) == [i \in 1..Len(candidates) |-> candidates[i].class]

Selected == sel # NotCalled

\* the candidates are the table's candidates for "mu", whatever their priorities
MuCase == prefix = <<"m", "u">> /\ ClassesOf(analysis_data) = <<"1", "3", "18">>

\* C1: for prefix "mu" and the table's candidates (classes 1, 3, 18, with any
\* declared priorities) select_best_class returns class 18 when a locative
\* pattern starts the stem, otherwise class 1 when a person pattern does,
\* otherwise class 3 when a tree or body-part pattern does, otherwise the
\* first candidate, class 1.
C1_MuPrecedence ==
    (Selected /\ MuCase) =>
        /\ sel.exc = "none"
        /\ \E i \in 1..Len(analysis_data) : sel.ret = Some(analysis_data[i])
        /\ sel.ret[1].class =
               IF StartsWithPattern(stem, LOCATIVE_STEMS) THEN "18"
               ELSE IF StartsWithPattern(stem, PERSON_STEMS) THEN "1"
               ELSE IF \/ StartsWithPattern(stem, TREE_STEMS)
                       \/ StartsWithPattern(stem, BODY_PART_STEMS) THEN "3"
               ELSE "1"

\* "Munda" is resolved to the locative class although class 18 declares the
\* highest priority number and class 1 the lowest
C1_Witness ==
    /\ Selected /\ MuCase
    /\ stem = <<"M", "u", "n", "d", "a">>
    /\ analysis_data[1].priority = Some(1)
    /\ analysis_data[3].priority = Some(2)
    /\ sel.ret[1].class = "18"

\* C2 as stated: a "mu" rule fires exactly for the stems that equal a pattern
\* of its set or are an initial segment of one.
C2_AsClaimed ==
    (Selected /\ MuCase) =>
        /\ sel.rule = "locative" <=> IsStartOfPattern(stem, LOCATIVE_STEMS)
        /\ sel.rule = "person" <=> IsStartOfPattern(stem, PERSON_STEMS)
        /\ sel.rule = "tree" <=> \/ IsStartOfPattern(stem, TREE_STEMS)
                                 \/ IsStartOfPattern(stem, BODY_PART_STEMS)

\* C2 amended: a "mu" rule fires exactly for the stems that, lower-cased,
\* equal a pattern of its set or begin with one (the pattern is an initial
\* segment of the stem, not the stem of the pattern).
C2_PatternStartsStem ==
    (Selected /\ MuCase) =>
        /\ sel.rule = "locative" <=> StartsWithPattern(stem, LOCATIVE_STEMS)
        /\ sel.rule = "person" <=> StartsWithPattern(stem, PERSON_STEMS)
        /\ sel.rule = "tree" <=> \/ StartsWithPattern(stem, TREE_STEMS)
                                 \/ StartsWithPattern(stem, BODY_PART_STEMS)
        /\ sel.rule = "default" <=>
               ~(\/ StartsWithPattern(stem, LOCATIVE_STEMS)
                 \/ StartsWithPattern(stem, PERSON_STEMS)
                 \/ StartsWithPattern(stem, TREE_STEMS)
                 \/ StartsWithPattern(stem, BODY_PART_STEMS))

\* a stem longer than its pattern fires the person rule
C2_Witness ==
    /\ Selected /\ MuCase
    /\ stem = <<"n", "h", "u", "n", "d", "u">>
    /\ sel.rule = "person"

\* C3 as stated: for prefix "mu" and at least two candidates select_best_class
\* never raises and returns one of the candidates.
C3_AsClaimed ==
    (Selected /\ prefix = <<"m", "u">> /\ Len(analysis_data) >= 2) =>
        /\ sel.exc = "none"
        /\ \E i \in 1..Len(analysis_data) : sel.ret = Some(analysis_data[i])

\* C5: for prefix "ku" and a non-empty candidate sequence select_best_class
\* returns the first candidate whatever the stem and the priorities; with the
\* table's candidates that is class 15.
C5_KuFirst ==
    (Selected /\ prefix = <<"k", "u">> /\ Len(analysis_data) >= 1) =>
        /\ sel.exc = "none"
        /\ sel.ret = Some(analysis_data[1])
        /\ ClassesOf(analysis_data) = <<"15", "17">> => sel.ret[1].class = "15"

\* class 15 wins although class 17 declares the lower priority number
C5_Witness ==
    /\ Selected
    /\ prefix = <<"k", "u">>
    /\ ClassesOf(analysis_data) = <<"15", "17">>
    /\ analysis_data[1].priority = Some(2)
    /\ analysis_data[2].priority = Some(1)
    /\ sel.ret[1].class = "15"

AllDeclarePriority ==
    \A i \in 1..Len(analysis_data) : analysis_data[i].priority # None

\* C6: for a prefix other than "mu" and "ku" and at least two candidates, all
\* declaring a priority, select_best_class returns the candidate with the
\* lowest priority number, and the first such candidate of the sequence when
\* several share it; a single candidate is returned for every prefix and stem.
C6_LowestPriorityFirst ==
    /\ (Selected /\ prefix # <<"m", "u">> /\ prefix # <<"k", "u">>
          /\ Len(analysis_data) >= 2 /\ AllDeclarePriority) =>
           /\ sel.exc = "none"
           /\ \E i \in 1..Len(analysis_data) :
                  /\ sel.ret = Some(analysis_data[i])
                  /\ \A j \in 1..Len(analysis_data) :
                         analysis_data[j].priority[1] >= analysis_data[i].priority[1]
                  /\ \A j \in 1..(i - 1) :
                         analysis_data[j].priority[1] > analysis_data[i].priority[1]
    /\ (Selected /\ Len(analysis_data) = 1) =>
           sel.exc = "none" /\ sel.ret = Some(analysis_data[1])

\* two different candidates tie on the lowest priority, behind a worse first
\* candidate: the earlier of the two is returned
C6_Witness ==
    /\ Selected
    /\ prefix = <<"v", "a">>
    /\ Len(analysis_data) = 3
    /\ analysis_data[1].priority = Some(2)
    /\ analysis_data[2].priority = Some(1)
    /\ analysis_data[3].priority = Some(1)
    /\ analysis_data[2].class # analysis_data[3].class
    /\ sel.ret = Some(analysis_data[2])

(***************************************************************************)
(* Properties of the lookup and of the segmenter, checked under Spec.      *)
(***************************************************************************)
Analysed == screen \in {"analysis", "unresolved", "exception"}

Distinct(entries) ==
    \A i, j \in 1..Len(entries) : i # j => entries[i].class # entries[j].class

\* C9: every prefix of the table maps to a non-empty sequence of entries with
\* pairwise different class ids, in app.py's table and in fortune_grammar's,
\* and no run of the handler changes the table.
C9_TableInvariant ==
    /\ \A p \in DOMAIN SHONA_CLASS_MAP :
           Len(SHONA_CLASS_MAP[p]) >= 1 /\ Distinct(SHONA_CLASS_MAP[p])
    /\ \A p \in DOMAIN SHONA_CLASS_MAP_fortune :
           /\ Len(SHONA_CLASS_MAP_fortune[p]) >= 1
           /\ Distinct(SHONA_CLASS_MAP_fortune[p])
    /\ SHONA_CLASS_MAP = SHONA_CLASS_MAP_app

\* a run that resolved a word to an entry of the table
C9_Witness ==
    /\ screen = "analysis"
    /\ analysis_history # <<>>
    /\ word_input = <<"m", "u", "m", "u", "n", "d", "a">>
    /\ best_candidate = Some(SHONA_CLASS_MAP[<<"m", "u">>][3])

\* the positions where the segmenter may split: a score above 0.5, not the
\* last character
Cuts ==
    { i \in 0..(Len(word_input) - 2) : i < Len(pred) /\ pred[i + 1] }

FirstCut == CHOOSE m \in Cuts : \A n \in Cuts : m <= n

\* C10: the segmenter splits at most once and prefix + stem is the word: with
\* a split position (the first one whose score exceeds 0.5 and that is not the
\* last character) prefix and stem are both non-empty; with none the prefix is
\* empty and the stem is the whole word.
C10_Segmentation ==
    Analysed =>
        /\ prefix \o stem = word_input
        /\ Cuts = {} =>
               /\ prefix = <<>>
               /\ stem = word_input
               /\ full_split = word_input
        /\ Cuts # {} =>
               /\ Len(prefix) = FirstCut + 1
               /\ prefix # <<>>
               /\ stem # <<>>
               /\ full_split = prefix \o <<"-">> \o stem

\* two positions score above 0.5: the word is split at the first only
C10_Witness ==
    /\ Analysed
    /\ word_input = <<"m", "u", "m", "u", "n", "d", "a">>
    /\ Cuts = {1, 2}
    /\ prefix = <<"m", "u">>
    /\ stem = <<"m", "u", "n", "d", "a">>

(***************************************************************************)
(* Properties of the lemma and of the plural form, checked under           *)
(* SpecDerive.                                                             *)
(***************************************************************************)
\* an optional prefix that is there: a non-empty string
Present(opt) == Len(opt) = 1 /\ Len(opt[1]) >= 1

Derived == lemma # None

\* C7: the lemma is the entry's lemma prefix followed by the stem exactly when
\* the entry is Plural and has a lemma prefix, and the word unchanged
\* otherwise; ("zvibage", "zvi", "bage", class 8) gives "chibage".
\* get_lemma gives the same lemma for each candidate it is handed.
C7_Lemma ==
    /\ Derived =>
           /\ (best_candidate[1].number = "Plural"
                 /\ Present(best_candidate[1].lemma_prefix)) =>
                  lemma = Some(best_candidate[1].lemma_prefix[1] \o stem)
           /\ best_candidate[1].number \in {"Singular", "Abstract", "N/A"} =>
                  lemma = Some(word_input)
           /\ ~Present(best_candidate[1].lemma_prefix) => lemma = Some(word_input)
           /\ (word_input = <<"z", "v", "i", "b", "a", "g", "e">> /\ prefix = <<"z", "v", "i">>
                 /\ best_candidate[1] = SHONA_CLASS_MAP[<<"z", "v", "i">>][1]) =>
                  lemma = Some(<<"c", "h", "i", "b", "a", "g", "e">>)
    /\ fortune # NoRun =>
           fortune.lemmas =
               { IF /\ fortune.candidates[i].number = "Plural"
                    /\ Present(fortune.candidates[i].singular_prefix)
                 THEN fortune.candidates[i].singular_prefix[1] \o stem
                 ELSE word_input
                 : i \in 1..Len(fortune.candidates) }

C7_Witness ==
    /\ Derived
    /\ word_input = <<"z", "v", "i", "b", "a", "g", "e">>
    /\ stem = <<"b", "a", "g", "e">>
    /\ best_candidate[1].class = "8"
    /\ best_candidate[1].number = "Plural"
    /\ lemma = Some(<<"c", "h", "i", "b", "a", "g", "e">>)

\* C8: the plural form is the entry's plural prefix followed by the stem when
\* the entry has one; without one, a class 18 entry gives "muminda" for the
\* stem "munda" and nothing for any other stem, and every other entry gives
\* nothing; ("bage", class 7) gives "zvibage".
C8_PluralForm ==
    Derived =>
        /\ Present(best_candidate[1].plural) =>
               plural_form = Some(best_candidate[1].plural[1] \o stem)
        /\ (~Present(best_candidate[1].plural) /\ best_candidate[1].class = "18") =>
               plural_form = IF stem = <<"m", "u", "n", "d", "a">> THEN Some(<<"m", "u", "m", "i", "n", "d", "a">>) ELSE None
        /\ (~Present(best_candidate[1].plural) /\ best_candidate[1].class # "18") =>
               plural_form = None
        /\ (stem = <<"b", "a", "g", "e">> /\ best_candidate[1] = SHONA_CLASS_MAP[<<"c", "h", "i">>][1]) =>
               plural_form = Some(<<"z", "v", "i", "b", "a", "g", "e">>)

C8_Witness ==
    /\ Derived
    /\ stem = <<"m", "u", "n", "d", "a">>
    /\ best_candidate[1].class = "18"
    /\ ~Present(best_candidate[1].plural)
    /\ plural_form = Some(<<"m", "u", "m", "i", "n", "d", "a">>)

(***************************************************************************)
(* The session history over long runs: the words come round in a fixed     *)
(* cycle from any starting word, each split after its second letter, so    *)
(* that neighbouring entries differ and both calls of add_to_history (a    *)
(* resolved class and "unknown") take their turn.                          *)
(***************************************************************************)
MaxAdds == 102

HistCycle == << <<"m", "u", "n", "h", "u">>, <<"k", "u", "e", "n", "d", "a">>, <<"x", "y", "z", "z", "y">> >>

HistPred == [i \in 1..MAX_LEN |-> i = 2]

\* the word after w in the cycle
Successor(w) ==
    HistCycle[((CHOOSE i \in 1..Len(HistCycle) : HistCycle[i] = w) % Len(HistCycle)) + 1]

HistAnalysis ==
    \E i \in 1..Len(HistCycle) :
        /\ added # <<>> => HistCycle[i] = Successor(added[1].word)
        /\ Len(added) < MaxAdds
        /\ DeepAnalysis(HistCycle[i], HistPred)

NextHist ==
    \/ HistAnalysis
    \/ DeepAnalysisEmpty
    \/ ClearHistory

SpecHist == Init /\ [][NextHist]_vars

\* C11: after any sequence of analyses and clears the history holds at most
\* 100 entries and is, newest first, the most recent min(n, 100) of the n
\* entries added since the last clear: an add beyond 100 drops the oldest
\* entry and no other.
C11_HistoryNewestHundred ==
    /\ Len(analysis_history) <= 100
    /\ Len(analysis_history) = IF Len(added) < 100 THEN Len(added) ELSE 100
    /\ \A i \in 1..Len(analysis_history) : analysis_history[i] = added[i]

\* two adds beyond the limit: the newest entry leads, the two oldest are gone
\* and the entry that is now last differs from the one dropped before it
C11_Witness ==
    /\ Len(added) = HISTORY_LIMIT + 2
    /\ Len(analysis_history) = HISTORY_LIMIT
    /\ analysis_history[1] = added[1]
    /\ analysis_history[HISTORY_LIMIT] = added[HISTORY_LIMIT]
    /\ added[HISTORY_LIMIT] # added[HISTORY_LIMIT + 1]
    /\ analysis_history[1].class = "unknown"

====
